---- MODULE Spec2Model ----
(***************************************************************************)
(* Memoized summarization pipeline of Scrape_db_bib_tex_pdf_generator:     *)
(* SummarizerManager (section methods, memoize wrapper, overflow           *)
(* recursion, chunker), DatabaseUtils (links table, ledger tables,         *)
(* insert_summary, memoize wrapper) and PromptProcessor.                   *)
(*                                                                         *)
(* A text is a tuple of characters; " " stands for any whitespace          *)
(* character and every other element for a run of non-whitespace ones.     *)
(***************************************************************************)
EXTENDS Integers, Sequences, FiniteSets, Bags, TLC

VARIABLES
    context_gpt3,   \* SummarizerManager.context_gpt3, the token budget
    links,          \* rows of the links table, in rowid order
    tables,         \* the ledger: section table name -> its rows, in rowid order
    stack,          \* nested calls of memoized section methods, innermost last
    requests,       \* the message lists given to generate_response by the running operation
    synth,          \* the synthesize_content call: its position and locals
    last,           \* the last completed top-level operation and what it returned
    split,          \* chunker specification: the input and output of one call
    inserts         \* concurrent callers: caller -> the position and locals of its call

vars == <<context_gpt3, links, tables, stack, requests, synth, last, split, inserts>>

\* ------------------------------------------------------------------ bounds
\* token budgets tried for self.context_gpt3 (scaled down from 16385)
MinBudget == 12
MaxBudget == 13
\* longest list of texts handed to a section method by a direct caller
MaxTexts == 2
\* rows of the links table
MaxLinks == 2
\* interpreter recursion limit, counted in nested section calls
RecursionLimit == 2
\* records kept in all ledger tables together
MaxRecords == 1
\* synthesize_content runs over unchanged links contents
MaxRuns == 2
\* chunker specification: fragments per input, characters per fragment, budget
MaxMsgs == 2
MaxTextLen == 3
MaxSplitBudget == 3
\* callers of insert_summary running at the same time
MaxCallers == 2

\* ------------------------------------------------------------ text helpers
Chars == {"a", " "}

IsSpace(c) == c = " "

\* len(content.split()): number of maximal runs of non-whitespace characters
WordCount(t) ==
    Cardinality({i \in 1..Len(t) :
                    /\ ~IsSpace(t[i])
                    /\ (i = 1 \/ IsSpace(t[i-1]))})

RECURSIVE LStrip(_)
LStrip(t) == IF t # <<>> /\ IsSpace(Head(t)) THEN LStrip(Tail(t)) ELSE t

RECURSIVE RStrip(_)
RStrip(t) ==
    IF t # <<>> /\ IsSpace(t[Len(t)]) THEN RStrip(SubSeq(t, 1, Len(t) - 1)) ELSE t

\* str.strip()
Strip(t) == RStrip(LStrip(t))

RECURSIVE SeqsUpTo(_, _)
SeqsUpTo(S, n) ==
    IF n = 0 THEN {<<>>}
    ELSE LET shorter == SeqsUpTo(S, n - 1)
         IN  shorter \cup {Append(s, x) : s \in shorter, x \in S}

RECURSIVE SumSeq(_)
SumSeq(s) == IF s = <<>> THEN 0 ELSE Head(s) + SumSeq(Tail(s))

\* a is a subsequence of b (relative order kept)
RECURSIVE IsSubseq(_, _)
IsSubseq(a, b) ==
    IF a = <<>> THEN TRUE
    ELSE IF b = <<>> THEN FALSE
    ELSE IF Head(a) = Head(b) THEN IsSubseq(Tail(a), Tail(b))
    ELSE IsSubseq(a, Tail(b))

SeqToBag(s) == [x \in {s[i] : i \in 1..Len(s)} |-> Cardinality({i \in 1..Len(s) : s[i] = x})]

\* the elements of s at the positions in I, in order
RECURSIVE Restrict(_, _, _)
Restrict(s, I, i) ==
    IF i > Len(s) THEN <<>>
    ELSE IF i \in I THEN <<s[i]>> \o Restrict(s, I, i + 1)
    ELSE Restrict(s, I, i + 1)

\* ------------------------------------------------------------------ chunker
Message(content) == [role |-> "user", content |-> content]

token_count(message) == WordCount(message.content)

\* variant: the fit test looks at the fragment alone, not at the running total
FitsOwnSize(total_tokens, tc, max_tokens) == tc <= max_tokens

\* variant: the fit test is strict
FitsStrict(total_tokens, tc, max_tokens) == total_tokens + tc < max_tokens

\* if total_tokens + token_count <= max_tokens
Fits(total_tokens, tc, max_tokens) == total_tokens + tc <= max_tokens

\* variant: the overflow list keeps only its latest fragment
OverflowKeepsLast(overflow_section, message) == <<message>>

\* overflow_section.append(message)
AppendOverflow(overflow_section, message) == Append(overflow_section, message)

\* the for loop of split_message_into_sections, from message i on
RECURSIVE SplitLoop(_, _, _, _, _, _)
SplitLoop(messages, i, total_tokens, primary_section, overflow_section, max_tokens) ==
    IF i > Len(messages) THEN <<primary_section, overflow_section>>
    ELSE LET message == messages[i]
             tc == token_count(message)
         IN  IF Fits(total_tokens, tc, max_tokens)
             THEN SplitLoop(messages, i + 1, total_tokens + tc,
                            Append(primary_section, message), overflow_section, max_tokens)
             ELSE SplitLoop(messages, i + 1, total_tokens,
                            primary_section, AppendOverflow(overflow_section, message),
                            max_tokens)

split_message_into_sections(messages, max_tokens) ==
    SplitLoop(messages, 1, 0, <<>>, <<>>, max_tokens)

\* variant: the loop takes each message out of the list it was given
MessagesConsumed(messages) == <<>>

\* the caller's list after the call: for message in messages reads the list and
\* appends its elements to the two new lists, nothing is removed or rebound
MessagesAfterLoop(messages) == messages

\* ------------------------------------------------------------- data model
\* the section kinds synthesize_content iterates, in its order
PromptNames ==
    <<"relato", "contexto", "entidades", "linha_tempo", "contradicoes",
      "conclusao", "questionario">>

\* the ledger tables create_summary_tables creates
SummaryTables ==
    {"relato", "contexto", "entidades", "linha_tempo", "contradicoes", "conclusao"}

\* the description each section method hands to _generate_summary, word by word
Description ==
    [relato       |-> <<"Detailed", "report", "based", "on", "thematic", "analysis">>,
     contexto     |-> <<"Contextual", "background", "analysis">>,
     entidades    |-> <<"Entities", "analysis", "with", "focus", "on", "individuals,",
                        "organizations,", "and", "subjects">>,
     linha_tempo  |-> <<"Timeline", "with", "logical", "event", "sequences">>,
     contradicoes |-> <<"Contradictions,", "polarizations,", "and", "dialectical",
                        "tensions">>,
     conclusao    |-> <<"Synthesized", "conclusion", "of", "themes", "with",
                        "implications">>,
     questionario |-> <<"Comprehensive", "questionnaire", "based", "on", "content,",
                        "with", "high-level", "questions">>]

RECURSIVE Join(_)
Join(words) ==
    IF Len(words) <= 1 THEN words
    ELSE <<Head(words), " ">> \o Join(Tail(words))

\* f"Provide a {description} for the following texts:"
Instruction(section_name) ==
    Join(<<"Provide", "a">> \o Description[section_name]
         \o <<"for", "the", "following", "texts:">>)

\* strings the program handles as summaries: what they are made from
EmptyStr == [kind |-> "", of |-> <<>>]
NoneVal == [kind |-> "None", of |-> <<>>]
\* variant: every result counts as one to store
TruthyAlways(result) == TRUE

\* if result: neither "" nor None
Truthy(result) == result # EmptyStr /\ result # NoneVal

\* the content the model API returns for a request: a summary of its messages
Response(sections) ==
    [kind |-> "llm", of |-> [i \in 1..Len(sections) |-> sections[i].content]]

\* str(x) of a list of texts and of the argument tuple holding it, and the SQL NULL
StrOfList(texts) == [repr |-> "list", of |-> texts]
StrOfArgs(texts) == [repr |-> "tuple", of |-> texts]
NULL == [repr |-> "NULL", of |-> <<>>]

\* hashlib.sha256(...).hexdigest(), taken as injective: the digest stands for its input
Sha256(str) == str

\* variant: the row stores the summary's text in the prompt column
SummaryRowSwapped(hash, prompt, summary) ==
    [hash_gpt3 |-> hash, prompt |-> StrOfList(summary.of), summary_gpt3 |-> summary]

\* INSERT INTO table (hash_gpt3, prompt, summary_gpt3) VALUES (?, ?, ?)
SummaryRow(hash, prompt, summary) ==
    [hash_gpt3 |-> hash, prompt |-> prompt, summary_gpt3 |-> summary]

\* SELECT ... FROM table WHERE hash_gpt3 = ?
SelectByHash(rows, hash) == SelectSeq(rows, LAMBDA r : r.hash_gpt3 = hash)

\* variant: the table has no UNIQUE constraint on hash_gpt3
InsertErrorNotUnique(rows, row) == IF row.prompt = NULL THEN "NOT NULL" ELSE "none"

\* the constraint an INSERT of row into rows violates: prompt TEXT NOT NULL,
\* hash_gpt3 TEXT UNIQUE
InsertError(rows, row) ==
    IF row.prompt = NULL THEN "NOT NULL"
    ELSE IF row.hash_gpt3 # NULL /\ SelectByHash(rows, row.hash_gpt3) # <<>> THEN "UNIQUE"
    ELSE "none"

TotalRecords == SumSeq([i \in 1..Len(PromptNames) |->
                    IF PromptNames[i] \in DOMAIN tables
                    THEN Len(tables[PromptNames[i]]) ELSE 0])

\* one call of a memoized section method of SummarizerManager
Frame(section_name, texts) ==
    [section            |-> section_name,
     args               |-> texts,
     pc                 |-> "wrapped",
     hit                |-> FALSE,
     func_called        |-> FALSE,
     nreq               |-> 0,
     sections           |-> <<>>,
     remaining_sections |-> <<>>,
     k                  |-> 1,
     summary_text       |-> EmptyStr,
     result             |-> EmptyStr,
     rec                |-> <<>>,
     conn               |-> FALSE,
     llm_failed         |-> FALSE,
     lookup_failed      |-> FALSE]

NoFrame == Frame("", <<>>)

NoOp ==
    [op |-> "none", table |-> "", hash |-> NULL, prompt |-> NULL, summary |-> EmptyStr,
     before |-> [t \in SummaryTables |-> <<>>], existed |-> FALSE, failed |-> FALSE,
     ret |-> FALSE, outcome |-> "", val |-> EmptyStr, frame |-> NoFrame,
     sources |-> <<>>, extraction |-> ""]

SynthIdle ==
    [pc |-> "idle", fetched |-> FALSE, entries |-> <<>>, idx |-> 1, summaries |-> <<>>,
     runs |-> 0, faulted |-> FALSE]

SplitIdle == [messages |-> <<>>, primary |-> <<>>, overflow |-> <<>>, applied |-> FALSE]

\* one insert_summary call of a caller: its arguments, its position (before the
\* check query, before the insert query, ended), its return value
Callers == 1..MaxCallers

InsertIdle ==
    [pc |-> "idle", table |-> "", hash |-> NULL, prompt |-> NULL, summary |-> EmptyStr,
     ret |-> FALSE, failed |-> FALSE, refused |-> FALSE]

\* ------------------------------------------------- chunker specification
SplitTexts == SeqsUpTo(Chars, MaxTextLen)

SplitInputs ==
    {[i \in 1..Len(ts) |-> Message(ts[i])] : ts \in SeqsUpTo(SplitTexts, MaxMsgs)}

InitIdle ==
    /\ links = <<>>
    /\ tables = [t \in SummaryTables |-> <<>>]
    /\ stack = <<>>
    /\ requests = <<>>
    /\ synth = SynthIdle
    /\ last = NoOp
    /\ inserts = [p \in Callers |-> InsertIdle]

InitSplit ==
    /\ InitIdle
    /\ context_gpt3 \in 0..MaxSplitBudget
    /\ split \in {[SplitIdle EXCEPT !.messages = m] : m \in SplitInputs}

\* sections, remaining = self.split_message_into_sections(messages)
ApplySplit ==
    /\ ~split.applied
    /\ LET out == split_message_into_sections(split.messages, context_gpt3)
       IN  split' = [split EXCEPT !.messages = MessagesAfterLoop(@),
                                  !.primary = out[1], !.overflow = out[2],
                                  !.applied = TRUE]
    /\ UNCHANGED <<context_gpt3, links, tables, stack, requests, synth, last, inserts>>

NextSplit == ApplySplit

SpecSplit == InitSplit /\ [][NextSplit]_vars

Tokens(msgs) == SumSeq([i \in 1..Len(msgs) |-> token_count(msgs[i])])

\* C3: the word counts of the primary list sum to at most the budget, and a
\* fragment whose own word count exceeds the budget is in the overflow list.
C3_PrimaryWithinBudget ==
    split.applied =>
        /\ Tokens(split.primary) <= context_gpt3
        /\ \A i \in 1..Len(split.messages) :
              token_count(split.messages[i]) > context_gpt3 =>
                  /\ \E j \in 1..Len(split.overflow) : split.overflow[j] = split.messages[i]
                  /\ \A j \in 1..Len(split.primary) : split.primary[j] # split.messages[i]

C3_Witness ==
    /\ split.applied
    /\ split.primary # <<>>
    /\ \E i \in 1..Len(split.messages) : token_count(split.messages[i]) > context_gpt3

\* C4: the chunker partitions its input: primary and overflow together hold
\* every input fragment exactly once, unmodified, each list in input order.
C4_Partition ==
    split.applied =>
        /\ SeqToBag(split.primary) (+) SeqToBag(split.overflow) = SeqToBag(split.messages)
        /\ IsSubseq(split.primary, split.messages)
        /\ IsSubseq(split.overflow, split.messages)

C4_Witness ==
    /\ split.applied
    /\ Len(split.primary) >= 1
    /\ Len(split.overflow) >= 1

\* C5 as claimed: primary is a prefix of the input and overflow the rest of it.
C5_PrimaryIsPrefix ==
    split.applied => split.messages = split.primary \o split.overflow

\* C5 as amended: primary is the first-fit selection. For some set I of input
\* positions, primary is the input at I and overflow the input outside I, both
\* in input order; each position in I fits the budget together with the
\* positions of I before it, and each position outside I does not.
C5_FirstFit ==
    split.applied =>
        \E I \in SUBSET (1..Len(split.messages)) :
            LET m == split.messages
                Before(j) == Tokens(Restrict(m, {i \in I : i < j}, 1))
            IN  /\ split.primary = Restrict(m, I, 1)
                /\ split.overflow = Restrict(m, (1..Len(m)) \ I, 1)
                /\ \A j \in I : Before(j) + token_count(m[j]) <= context_gpt3
                /\ \A j \in (1..Len(m)) \ I :
                      Before(j) + token_count(m[j]) > context_gpt3

\* a fragment placed in primary after an earlier one went to overflow
C5_Witness ==
    /\ split.applied
    /\ split.primary # <<>>
    /\ split.overflow # <<>>
    /\ split.messages # split.primary \o split.overflow

\* ------------------------------------------- SummarizerManager: sections
\* texts and sections a direct caller passes to the section methods
TextPool == {<<" ", "a">>, <<"a", " ", "a">>}
CallTexts == SeqsUpTo(TextPool, MaxTexts)
CallSections == {"relato", "contexto", "questionario"}
Budgets == MinBudget..MaxBudget

Top == stack[Len(stack)]
SetTop(frame) == [stack EXCEPT ![Len(stack)] = frame]
Idle == stack = <<>> /\ synth.pc \in {"idle", "done"}

\* the running operation notes a storage error (sqlite3.Error) it met
StorageFault(err) == IF err THEN [last EXCEPT !.failed = TRUE] ELSE last

\* arg_hash = hashlib.sha256(str(args).encode('utf-8')).hexdigest()
arg_hash(frame) == Sha256(StrOfArgs(frame.args))

\* INSERT INTO table (hash_gpt3, summary_gpt3): the prompt column is left NULL
WrapperRow(hash, result) == SummaryRow(hash, NULL, result)

\* variant: a hit goes on to the wrapped function
HitFallsThrough(frame, row) == [frame EXCEPT !.pc = "func", !.hit = TRUE]

\* if row: return row[0]
HitReturn(frame, row) ==
    [frame EXCEPT !.pc = "ret", !.hit = TRUE, !.result = row.summary_gpt3]

\* variant: the instruction is appended after the texts
BuildMessagesTextsFirst(section_name, texts) ==
    [i \in 1..Len(texts) |-> Message(Strip(texts[i]))]
        \o <<Message(Instruction(section_name))>>

\* messages of _generate_summary: the instruction, then text.strip() per text
BuildMessages(section_name, texts) ==
    <<Message(Instruction(section_name))>>
        \o [i \in 1..Len(texts) |-> Message(Strip(texts[i]))]

\* variant: a failed call gives None
generate_response_none(messages, ok) == IF ok THEN Response(messages) ELSE NoneVal

\* generate_response: the content of the API's answer, "" when the call fails
generate_response(messages, ok) == IF ok THEN Response(messages) ELSE EmptyStr

\* a caller outside the class calls a section method
CallSection(section_name, texts) ==
    /\ Idle
    /\ stack' = <<Frame(section_name, texts)>>
    /\ requests' = <<>>
    /\ last' = NoOp
    /\ UNCHANGED <<context_gpt3, links, tables, synth, split, inserts>>

\* wrapped, up to the cache check: connect, SELECT by hash, return the row on a
\* hit; the storage error met here is one raised by cursor.execute, on the
\* connection sqlite3.connect has opened
WrappedLookup ==
    /\ stack # <<>>
    /\ Top.pc = "wrapped"
    /\ \E err \in BOOLEAN :
          LET opened == [Top EXCEPT !.conn = TRUE]
          IN  IF err \/ Top.section \notin DOMAIN tables
              THEN /\ stack' = SetTop([opened EXCEPT !.pc = "exc", !.lookup_failed = TRUE])
                   /\ last' = StorageFault(err)
              ELSE LET row == SelectByHash(tables[Top.section], arg_hash(Top))
                   IN  IF row # <<>>
                       THEN /\ stack' = SetTop(HitReturn(opened, row[1]))
                            /\ last' = [last EXCEPT !.existed = TRUE]
                       ELSE /\ stack' = SetTop([opened EXCEPT !.pc = "func"])
                            /\ UNCHANGED last
    /\ UNCHANGED <<context_gpt3, links, tables, requests, synth, split, inserts>>

\* _generate_summary up to the primary call: build, split, generate_response
GenerateSummary ==
    /\ stack # <<>>
    /\ Top.pc = "func"
    /\ \E ok \in BOOLEAN :
          LET messages == BuildMessages(Top.section, Top.args)
              out == split_message_into_sections(messages, context_gpt3)
              summary_text == generate_response(out[1], ok)
              called == [Top EXCEPT !.func_called = TRUE, !.nreq = @ + 1,
                                    !.sections = out[1], !.remaining_sections = out[2],
                                    !.summary_text = summary_text, !.k = 1,
                                    !.llm_failed = ~ok]
          IN  /\ requests' = Append(requests, out[1])
              /\ stack' = SetTop(IF out[2] # <<>>
                                 THEN [called EXCEPT !.pc = "remaining"]
                                 ELSE [called EXCEPT !.pc = "store",
                                                     !.result = summary_text])
    /\ UNCHANGED <<context_gpt3, links, tables, synth, last, split, inserts>>

\* variant: the overflow of every section is handed to relato
RecursiveMethodRelato(section_name) == "relato"

\* method = getattr(self, section_name): the section method called on overflow
RecursiveMethod(section_name) == section_name

\* process_remaining_sections: one iteration of its loop, or its end and the
\* return of _generate_summary; a call past the recursion limit raises
\* RecursionError, which the except clause of _generate_summary turns into ""
ProcessRemaining ==
    /\ stack # <<>>
    /\ Top.pc = "remaining"
    /\ IF Top.k <= Len(Top.remaining_sections)
       THEN IF Len(stack) < RecursionLimit
            THEN stack' = Append(stack,
                    Frame(RecursiveMethod(Top.section),
                          <<Top.remaining_sections[Top.k].content>>))
            ELSE stack' = SetTop([Top EXCEPT !.pc = "store", !.result = EmptyStr])
       ELSE stack' = SetTop([Top EXCEPT !.pc = "store", !.result = Top.summary_text])
    /\ UNCHANGED <<context_gpt3, links, tables, requests, synth, last, split, inserts>>

\* wrapped, after func: if result: INSERT, commit; conn.close(); return result
Store ==
    /\ stack # <<>>
    /\ Top.pc = "store"
    /\ IF Truthy(Top.result)
       THEN \E err \in BOOLEAN :
              LET row == WrapperRow(arg_hash(Top), Top.result)
              IN  /\ last' = StorageFault(err)
                  /\ IF err \/ InsertError(tables[Top.section], row) # "none"
                     THEN /\ stack' = SetTop([Top EXCEPT !.pc = "exc"])
                          /\ UNCHANGED tables
                     ELSE /\ stack' = SetTop([Top EXCEPT !.pc = "ret", !.conn = FALSE])
                          /\ tables' = [tables EXCEPT ![Top.section] = Append(@, row)]
       ELSE /\ stack' = SetTop([Top EXCEPT !.pc = "ret", !.conn = FALSE])
            /\ UNCHANGED <<tables, last>>
    /\ UNCHANGED <<context_gpt3, links, requests, synth, split, inserts>>

\* a recursive call ends: its value is dropped by process_remaining_sections,
\* its exception is caught by the caller's _generate_summary, which returns ""
Return ==
    /\ Len(stack) > 1
    /\ Top.pc \in {"ret", "exc"}
    /\ LET child == Top
           parent == stack[Len(stack) - 1]
           resumed == IF child.pc = "ret"
                      THEN [parent EXCEPT !.k = @ + 1, !.rec = Append(@, child.result)]
                      ELSE [parent EXCEPT !.pc = "store", !.result = EmptyStr]
       IN  stack' = Append(SubSeq(stack, 1, Len(stack) - 2), resumed)
    /\ UNCHANGED <<context_gpt3, links, tables, requests, synth, last, split, inserts>>

\* the outermost call ends at a caller outside the class
ReturnToCaller ==
    /\ Len(stack) = 1
    /\ Top.pc \in {"ret", "exc"}
    /\ synth.pc # "wait"
    /\ last' = [last EXCEPT !.op = "call", !.table = Top.section,
                            !.hash = arg_hash(Top),
                            !.outcome = IF Top.pc = "ret" THEN "returned" ELSE "raised",
                            !.val = IF Top.pc = "ret" THEN Top.result ELSE EmptyStr,
                            !.frame = Top]
    /\ stack' = <<>>
    /\ UNCHANGED <<context_gpt3, links, tables, requests, synth, split, inserts>>

\* ------------------------------------------------ DatabaseUtils: the ledger
HashPool ==
    {Sha256(StrOfArgs(<< <<" ", "a">> >>)), Sha256(StrOfArgs(<< <<"a">> >>)),
     Sha256(StrOfList(<< <<"a">> >>))}
PromptPool == {StrOfList(<< <<"a">> >>)}
SummaryPool == {[kind |-> "given", of |-> << <<"g">> >>]}

\* insert_summary: the duplicate check, then the insert; sqlite3.Error gives
\* False; the ledger holds at most max_records records
InsertSummaryUpTo(max_records, table_name, prompt, summary, prompt_hash) ==
    /\ Idle
    /\ \E err_check \in BOOLEAN, err_insert \in BOOLEAN :
          LET exists == table_name \in DOMAIN tables
              result == IF exists THEN SelectByHash(tables[table_name], prompt_hash)
                        ELSE <<>>
              row == SummaryRow(prompt_hash, prompt, summary)
              done(failed, ret) ==
                  [NoOp EXCEPT !.op = "insert_summary", !.table = table_name,
                               !.hash = prompt_hash, !.prompt = prompt,
                               !.summary = summary, !.before = tables,
                               !.existed = result # <<>>, !.failed = failed,
                               !.ret = ret]
          IN  IF ~exists \/ err_check
              THEN /\ last' = [done(TRUE, FALSE) EXCEPT !.existed = FALSE]
                   /\ UNCHANGED tables
              ELSE IF result # <<>>
              THEN /\ last' = done(FALSE, FALSE)
                   /\ UNCHANGED tables
              ELSE IF err_insert \/ InsertError(tables[table_name], row) # "none"
              THEN /\ last' = done(TRUE, FALSE)
                   /\ UNCHANGED tables
              ELSE /\ TotalRecords < max_records
                   /\ last' = done(FALSE, TRUE)
                   /\ tables' = [tables EXCEPT ![table_name] = Append(@, row)]
    /\ requests' = <<>>
    /\ UNCHANGED <<context_gpt3, links, stack, synth, split, inserts>>

InsertSummary(table_name, prompt, summary, prompt_hash) ==
    InsertSummaryUpTo(MaxRecords, table_name, prompt, summary, prompt_hash)

\* -------------------------------------------------------- PromptProcessor
PromptSections == CallSections \cap SummaryTables
PromptTexts == {<<>>, << <<"a">> >>}
SourcePool == {<<>>, << <<"s">> >>, << <<"t">> >>}

\* what happens inside extract_entities: entities are found; none are found
\* (no entity in the text, or an unsupported language); spacy.load or the
\* pipeline raises, which extract_entities catches; langdetect's detect raises,
\* which neither detect_language nor extract_entities catches
ExtractionOutcomes == {"found", "none", "model_error", "detect_raises"}

\* extract_entities(" ".join(texts)): the entities list, or the exception
extract_entities(texts, outcome) ==
    [raised |-> outcome = "detect_raises",
     entities |-> IF outcome = "found" THEN <<texts[1]>> ELSE <<>>]

\* _generate_prompt_with_entities: "" for no texts or no sources and when
\* anything raises, else the prompt made of the section, its description, the
\* entities found and the sources
generate_prompt_with_entities(section_name, texts, sources, extraction) ==
    IF texts = <<>> \/ sources = <<>> THEN EmptyStr
    ELSE IF extraction.raised THEN EmptyStr
    ELSE [kind |-> section_name, of |-> extraction.entities \o sources]

\* a PromptProcessor section method under DatabaseUtils.memoize_to_db
PromptCall(section_name, texts, sources) ==
    /\ Idle
    /\ LET prompt == StrOfList(texts)
           prompt_hash == Sha256(prompt)
           row == SelectByHash(tables[section_name], prompt_hash)
           checked == texts # <<>> /\ sources # <<>>
           result(outcome) ==
               IF checked
               THEN generate_prompt_with_entities(section_name, texts, sources,
                                                  extract_entities(texts, outcome))
               ELSE generate_prompt_with_entities(section_name, texts, sources,
                                                  [raised |-> FALSE, entities |-> <<>>])
           done(frame, val) ==
               [NoOp EXCEPT !.op = "prompt", !.table = section_name,
                            !.hash = prompt_hash, !.before = tables,
                            !.outcome = "returned", !.val = val, !.frame = frame,
                            !.sources = sources]
           this == Frame(section_name, texts)
           ran(outcome, val) ==
               [done([this EXCEPT !.func_called = TRUE, !.result = result(outcome)], val)
                   EXCEPT !.extraction = IF checked THEN outcome ELSE ""]
       IN  \/ /\ last' = done([this EXCEPT !.lookup_failed = TRUE], NoneVal)
              /\ UNCHANGED tables
           \/ /\ row # <<>>
              /\ last' = done(HitReturn(this, row[1]), row[1].summary_gpt3)
              /\ UNCHANGED tables
           \/ /\ row = <<>>
              /\ \E outcome \in IF checked THEN ExtractionOutcomes ELSE {"none"} :
                    IF ~Truthy(result(outcome))
                    THEN /\ last' = ran(outcome, result(outcome))
                         /\ UNCHANGED tables
                    ELSE \/ /\ last' = ran(outcome, NoneVal)
                            /\ UNCHANGED tables
                         \/ /\ TotalRecords < MaxRecords
                            /\ last' = ran(outcome, result(outcome))
                            /\ tables' = [tables EXCEPT ![section_name] =
                                  Append(@, SummaryRow(prompt_hash, prompt,
                                                       result(outcome)))]
    /\ requests' = <<>>
    /\ UNCHANGED <<context_gpt3, links, stack, synth, split, inserts>>

\* ---------------------------------------------------- the links table
\* a links row: its link and its cleaned_text, <<>> for NULL and <<t>> for a
\* text t (the other columns play no part in the summaries)
LinkTexts == {<<>>, << <<"a">> >>, << <<" ", "a">> >>, << <<" ">> >>}

\* insert_link: INSERT OR IGNORE on the UNIQUE link; sqlite3.Error gives False
InsertLink(link, cleaned_text) ==
    /\ Idle
    /\ \E err \in BOOLEAN :
          LET taken == \E i \in 1..Len(links) : links[i].link = link
              done(ret) == [NoOp EXCEPT !.op = "insert_link", !.failed = err, !.ret = ret]
          IN  IF err
              THEN /\ last' = done(FALSE)
                   /\ UNCHANGED <<links, synth>>
              ELSE IF taken
              THEN /\ last' = done(TRUE)
                   /\ UNCHANGED <<links, synth>>
              ELSE /\ last' = done(TRUE)
                   /\ links' = Append(links, [link |-> link, cleaned_text |-> cleaned_text])
                   /\ synth' = [synth EXCEPT !.runs = 0, !.faulted = FALSE]
    /\ requests' = <<>>
    /\ UNCHANGED <<context_gpt3, tables, stack, split, inserts>>

\* variant: a statement on the links table also empties the summary tables
LinksStatementPurges(tbls) == [t \in DOMAIN tbls |-> <<>>]

\* DELETE FROM links ..., UPDATE links ...: what a committed statement on the
\* links table leaves of the summary tables
LinksStatement(tbls) == tbls

\* the running link operation ends; changed contents of the links table start
\* a new series of synthesize_content runs
LinkOpEnds(op, err, found) ==
    /\ last' = [NoOp EXCEPT !.op = op, !.failed = err, !.existed = found,
                            !.before = tables,
                            !.outcome = IF err THEN "raised" ELSE "returned"]
    /\ synth' = IF err \/ ~found THEN synth
                ELSE [synth EXCEPT !.runs = 0, !.faulted = FALSE]
    /\ tables' = IF err THEN tables ELSE LinksStatement(tables)
    /\ requests' = <<>>

\* LinkManager.remove_all_links: DELETE FROM links; a sqlite3.Error propagates
RemoveAllLinks ==
    /\ Idle
    /\ \E err \in BOOLEAN :
          /\ links' = IF err THEN links ELSE <<>>
          /\ LinkOpEnds("remove_all_links", err, links # <<>>)
    /\ UNCHANGED <<context_gpt3, stack, split, inserts>>

\* LinkManager.delete_link: DELETE FROM links WHERE link = ?; the rows of a
\* DELETE are empty, so the value returned is False
DeleteLink(link) ==
    /\ Idle
    /\ \E err \in BOOLEAN :
          /\ links' = IF err THEN links
                      ELSE SelectSeq(links, LAMBDA r : r.link # link)
          /\ LinkOpEnds("delete_link", err, \E i \in 1..Len(links) : links[i].link = link)
    /\ UNCHANGED <<context_gpt3, stack, split, inserts>>

\* LinkManager.update_link_data with updated_data = {"cleaned_text": ...}:
\* UPDATE links SET cleaned_text = ? WHERE link = ?
UpdateLinkData(link, cleaned_text) ==
    /\ Idle
    /\ \E err \in BOOLEAN :
          /\ links' = IF err THEN links
                      ELSE [i \in 1..Len(links) |->
                              IF links[i].link = link
                              THEN [links[i] EXCEPT !.cleaned_text = cleaned_text]
                              ELSE links[i]]
          /\ LinkOpEnds("update_link_data", err,
                        \E i \in 1..Len(links) : /\ links[i].link = link
                                                 /\ links[i].cleaned_text # cleaned_text)
    /\ UNCHANGED <<context_gpt3, stack, split, inserts>>

\* fetch_cleaned_texts: the non-NULL cleaned_text values that are strings with
\* a non-whitespace character, in row order
fetch_cleaned_texts(rows) ==
    LET kept == SelectSeq(rows, LAMBDA r : r.cleaned_text # <<>>
                                           /\ Strip(r.cleaned_text[1]) # <<>>)
    IN  [i \in 1..Len(kept) |-> kept[i].cleaned_text[1]]

\* entry[0] of a str: its first character
FirstItem(entry) == <<entry[1]>>

\* ---------------------------------- SummarizerManager.synthesize_content
\* positional arguments synthesize_content gives insert_summary after self,
\* and the ones insert_summary requires
InsertSummaryArgsGiven == 2
InsertSummaryArgsRequired == 4

\* synthesize_content up to its loop: fetch the texts, entry[0] of each;
\* an exception of the fetch is caught and the empty list returned
SynthStart ==
    /\ Idle
    /\ synth.runs < MaxRuns
    /\ \E err \in BOOLEAN :
          LET all_entries == fetch_cleaned_texts(links)
              began == [SynthIdle EXCEPT !.runs = synth.runs + 1,
                                         !.faulted = synth.faulted \/ err]
          IN  /\ last' = [NoOp EXCEPT !.op = "synth", !.failed = err]
              /\ IF err
                 THEN synth' = [began EXCEPT !.pc = "done"]
                 ELSE synth' = [began EXCEPT
                                   !.pc = "loop", !.fetched = TRUE,
                                   !.entries = [i \in 1..Len(all_entries) |->
                                                   FirstItem(all_entries[i])]]
    /\ requests' = <<>>
    /\ UNCHANGED <<context_gpt3, links, tables, stack, split, inserts>>

\* the loop head: method = getattr(self, prompt_name); method(entries)
SynthCall ==
    /\ synth.pc = "loop"
    /\ stack = <<>>
    /\ IF synth.idx <= Len(PromptNames)
       THEN /\ stack' = <<Frame(PromptNames[synth.idx], synth.entries)>>
            /\ synth' = [synth EXCEPT !.pc = "wait"]
       ELSE /\ synth' = [synth EXCEPT !.pc = "done"]
            /\ UNCHANGED stack
    /\ UNCHANGED <<context_gpt3, links, tables, requests, last, split, inserts>>

\* the section method ends: an exception leaves the loop through the except
\* clause; a summary is appended and insert_summary(prompt_name, summary) is
\* called, which raises TypeError when required arguments are missing
SynthResume ==
    /\ synth.pc = "wait"
    /\ Len(stack) = 1
    /\ Top.pc \in {"ret", "exc"}
    /\ LET noted == [synth EXCEPT !.faulted = @ \/ last.failed]
       IN  IF Top.pc = "exc"
           THEN synth' = [noted EXCEPT !.pc = "done"]
           ELSE IF InsertSummaryArgsGiven # InsertSummaryArgsRequired
           THEN synth' = [noted EXCEPT !.pc = "done",
                                       !.summaries = Append(@, Top.result)]
           ELSE synth' = [noted EXCEPT !.pc = "loop", !.idx = @ + 1,
                                       !.summaries = Append(@, Top.result)]
    /\ stack' = <<>>
    /\ UNCHANGED <<context_gpt3, links, tables, requests, last, split, inserts>>

\* ------------------------------------------------------- specification
Init ==
    /\ InitIdle
    /\ context_gpt3 \in Budgets
    /\ split = SplitIdle

Next ==
    \/ \E s \in CallSections, texts \in CallTexts : CallSection(s, texts)
    \/ WrappedLookup
    \/ GenerateSummary
    \/ ProcessRemaining
    \/ Store
    \/ Return
    \/ ReturnToCaller
    \/ \E t \in CallSections, p \in PromptPool, s \in SummaryPool, h \in HashPool :
          InsertSummary(t, p, s, h)
    \/ \E s \in PromptSections, texts \in PromptTexts, sources \in SourcePool :
          PromptCall(s, texts, sources)

Spec == Init /\ [][Next]_vars

\* the hash synthesize_content's first section looks up for a single entry "a"
SynthHash == Sha256(StrOfArgs(<< <<"a">> >>))

\* the links table and synthesize_content over it
NextSynth ==
    \/ \E link \in 1..MaxLinks, text \in LinkTexts : InsertLink(link, text)
    \/ SynthStart
    \/ SynthCall
    \/ SynthResume
    \/ WrappedLookup
    \/ GenerateSummary
    \/ ProcessRemaining
    \/ Store
    \/ Return
    \/ \E p \in PromptPool, s \in SummaryPool :
          InsertSummary(PromptNames[1], p, s, SynthHash)

SpecSynth == Init /\ [][NextSynth]_vars

\* the ledger under every operation that writes to the database: the link
\* operations of LinkManager and DatabaseUtils on one url, insert_summary,
\* the PromptProcessor sections and synthesize_content runs
LedgerLinks == {1}
LedgerTexts == {<<>>, << <<"a">> >>}

NextLedger ==
    \/ \E link \in LedgerLinks, text \in LedgerTexts : InsertLink(link, text)
    \/ RemoveAllLinks
    \/ \E link \in LedgerLinks : DeleteLink(link)
    \/ \E link \in LedgerLinks, text \in LedgerTexts : UpdateLinkData(link, text)
    \/ \E p \in PromptPool, s \in SummaryPool, h \in HashPool :
          InsertSummary(PromptNames[1], p, s, h)
    \/ \E texts \in PromptTexts, sources \in SourcePool :
          PromptCall(PromptNames[1], texts, sources)
    \/ SynthStart
    \/ SynthCall
    \/ SynthResume
    \/ WrappedLookup
    \/ GenerateSummary
    \/ ProcessRemaining
    \/ Store
    \/ Return

SpecLedger == Init /\ [][NextLedger]_vars

\* ------------------------------ DatabaseUtils: concurrent insert_summary
\* insert_summary runs its check query and its insert query through
\* execute_query, each on a connection of its own; calls of several callers
\* interleave between the two queries
ConcTables == {"relato", "questionario"}
ConcHashes == {Sha256(StrOfList(<< <<"a">> >>)), Sha256(StrOfArgs(<< <<"a">> >>))}

\* a caller calls insert_summary(table_name, prompt, summary, prompt_hash)
BeginInsert(p, table_name, prompt, summary, prompt_hash) ==
    /\ inserts[p].pc = "idle"
    /\ inserts' = [inserts EXCEPT ![p] =
                      [InsertIdle EXCEPT !.pc = "check", !.table = table_name,
                                         !.hash = prompt_hash, !.prompt = prompt,
                                         !.summary = summary]]
    /\ UNCHANGED <<context_gpt3, links, tables, stack, requests, synth, last, split>>

\* result = self.execute_query(query_check, (prompt_hash,)); if result: return False
CheckQuery(p) ==
    /\ inserts[p].pc = "check"
    /\ \E err \in BOOLEAN :
          LET call == inserts[p]
          IN  IF err \/ call.table \notin DOMAIN tables
              THEN inserts' = [inserts EXCEPT ![p] =
                                  [call EXCEPT !.pc = "done", !.failed = TRUE]]
              ELSE IF SelectByHash(tables[call.table], call.hash) # <<>>
              THEN inserts' = [inserts EXCEPT ![p] = [call EXCEPT !.pc = "done"]]
              ELSE inserts' = [inserts EXCEPT ![p] = [call EXCEPT !.pc = "insert"]]
    /\ UNCHANGED <<context_gpt3, links, tables, stack, requests, synth, last, split>>

\* self.execute_query(query_insert, ...); return True; a constraint violation
\* (sqlite3.IntegrityError) or another sqlite3.Error gives False
InsertQuery(p) ==
    /\ inserts[p].pc = "insert"
    /\ \E err \in BOOLEAN :
          LET call == inserts[p]
              row == SummaryRow(call.hash, call.prompt, call.summary)
          IN  IF err
              THEN /\ inserts' = [inserts EXCEPT ![p] =
                                     [call EXCEPT !.pc = "done", !.failed = TRUE]]
                   /\ UNCHANGED tables
              ELSE IF InsertError(tables[call.table], row) # "none"
              THEN /\ inserts' = [inserts EXCEPT ![p] =
                                     [call EXCEPT !.pc = "done", !.refused = TRUE]]
                   /\ UNCHANGED tables
              ELSE /\ inserts' = [inserts EXCEPT ![p] =
                                     [call EXCEPT !.pc = "done", !.ret = TRUE]]
                   /\ tables' = [tables EXCEPT ![call.table] = Append(@, row)]
    /\ UNCHANGED <<context_gpt3, links, stack, requests, synth, last, split>>

NextConc ==
    \/ \E p \in Callers, t \in ConcTables, pr \in PromptPool, s \in SummaryPool,
          h \in ConcHashes : BeginInsert(p, t, pr, s, h)
    \/ \E p \in Callers : CheckQuery(p)
    \/ \E p \in Callers : InsertQuery(p)

SpecConc == Init /\ [][NextConc]_vars

\* ------------------------------------------------------------------ claims
Count(seq, x) == Cardinality({i \in 1..Len(seq) : seq[i] = x})

\* the contents of every message handed to generate_response by the operation
RECURSIVE Sent(_)
Sent(reqs) ==
    IF reqs = <<>> THEN <<>>
    ELSE [i \in 1..Len(Head(reqs)) |-> Head(reqs)[i].content] \o Sent(Tail(reqs))

\* everything summary b was made from is also in summary a
Covers(a, b) == \A j \in 1..Len(b.of) : \E i \in 1..Len(a.of) : a.of[i] = b.of[j]

\* a direct call of a section method has returned; no lookup of it or of its
\* recursive calls met a storage error or found a record
MissReturned ==
    /\ last.op = "call"
    /\ last.outcome = "returned"
    /\ ~last.failed
    /\ ~last.existed

\* C1: every recursive call of a section method works on fewer fragments than
\* its caller (the measure that would make the overflow recursion terminate).
C1_RecursionShrinks ==
    \A i \in 2..Len(stack) : Len(stack[i].args) < Len(stack[i-1].args)

\* _generate_summary has returned normally from a call whose split left an
\* overflow: the loop over the overflow ended and no exception was caught
Combined(frame) ==
    /\ frame.pc = "store"
    /\ frame.remaining_sections # <<>>
    /\ frame.k > Len(frame.remaining_sections)

\* C2: when the split left a non-empty overflow, the summary _generate_summary
\* returns covers the primary result and the value returned by every recursive
\* call on the overflow.
C2_CombinesOverflowResults ==
    \A i \in 1..Len(stack) :
        Combined(stack[i]) =>
            /\ Covers(stack[i].result, stack[i].summary_text)
            /\ \A j \in 1..Len(stack[i].rec) : Covers(stack[i].result, stack[i].rec[j])

\* C6: every source text is in the primary batch of exactly one request among
\* the top-level call and its recursive calls.
C6_EachTextSentOnce ==
    MissReturned =>
        LET given == [i \in 1..Len(last.frame.args) |-> Strip(last.frame.args[i])]
        IN  \A i \in 1..Len(given) :
                Count(Sent(requests), given[i]) = Count(given, given[i])

HitServed(frame, hash) ==
    /\ frame.pc = "ret"
    /\ ~frame.func_called
    /\ frame.nreq = 0
    /\ frame.section \in DOMAIN tables
    /\ \E i \in 1..Len(tables[frame.section]) :
          /\ tables[frame.section][i].hash_gpt3 = hash
          /\ tables[frame.section][i].summary_gpt3 = frame.result

\* C9: a memoize wrapper that finds a ledger record for the request's hash
\* returns that record's summary; the wrapped function and generate_response
\* are not invoked for that request.
C9_HitSkipsFuncAndLLM ==
    /\ \A i \in 1..Len(stack) : stack[i].hit => HitServed(stack[i], arg_hash(stack[i]))
    /\ (last.op \in {"call", "prompt"} /\ last.frame.hit) =>
          /\ HitServed(last.frame, last.hash)
          /\ last.outcome = "returned"
          /\ last.val = last.frame.result
          /\ requests = <<>>
          /\ last.op = "prompt" => tables = last.before

C9_Witness ==
    /\ last.op = "call"
    /\ last.frame.hit
    /\ Truthy(last.val)

\* insert_summary has ended as the store contract describes: with a record of
\* the same hash in the table the table is unchanged and False returned; with
\* none, one record (hash, prompt, summary) is added and True returned
StoredOrRefused ==
    IF /\ last.table \in DOMAIN last.before
       /\ \E i \in 1..Len(last.before[last.table]) :
              last.before[last.table][i].hash_gpt3 = last.hash
    THEN /\ tables = last.before
         /\ last.ret = FALSE
    ELSE /\ last.table \in DOMAIN last.before
         /\ tables = [last.before EXCEPT ![last.table] =
                         Append(@, [hash_gpt3 |-> last.hash, prompt |-> last.prompt,
                                    summary_gpt3 |-> last.summary])]
         /\ last.ret = TRUE

C7_SecondRunCallsNoLLM ==
    (synth.pc = "done" /\ synth.runs >= 2 /\ ~synth.faulted) => requests = <<>>

\* C8: a synthesize_content run that fetched its texts returns one entry for
\* every section kind of its loop, whatever happened in each.
C8_EverySectionProcessed ==
    (synth.pc = "done" /\ synth.fetched) => Len(synth.summaries) = Len(PromptNames)

\* the callers whose insert_summary call on table t with hash h has ended
Ended(t, h) ==
    {p \in Callers : /\ inserts[p].pc = "done"
                     /\ inserts[p].table = t
                     /\ inserts[p].hash = h}

Stored(t, h) == IF t \in DOMAIN tables THEN Len(SelectByHash(tables[t], h)) ELSE 0

\* C11 as claimed: two ended insert_summary calls with the same table and hash
\* leave exactly one record with that hash, one returned True and one False.
C11_ExactlyOneStored ==
    \A t \in ConcTables, h \in ConcHashes :
        Cardinality(Ended(t, h)) >= 2 =>
            /\ Stored(t, h) = 1
            /\ Cardinality({p \in Ended(t, h) : inserts[p].ret}) = 1

\* C11 as amended: under every interleaving of the check and insert queries,
\* the calls with the same table and hash leave at most one record with that
\* hash and at most one of them returns True, the one that stored it; when
\* two or more such calls have ended and none met a storage error other than
\* the uniqueness violation, exactly one returned True and one record exists.
C11_AtMostOneStored ==
    \A t \in ConcTables, h \in ConcHashes :
        LET wins == {p \in Ended(t, h) : inserts[p].ret}
        IN  /\ Stored(t, h) <= 1
            /\ Cardinality(wins) = Stored(t, h)
            /\ (/\ Cardinality(Ended(t, h)) >= 2
                /\ \A p \in Ended(t, h) : ~inserts[p].failed) =>
                   /\ Stored(t, h) = 1
                   /\ Cardinality(wins) = 1

\* both calls passed the check query before either inserted: one insert was
\* refused by the UNIQUE constraint
C11_Witness ==
    \E p, q \in Callers :
        /\ p # q
        /\ inserts[p].pc = "done" /\ inserts[q].pc = "done"
        /\ inserts[p].table = inserts[q].table
        /\ inserts[p].hash = inserts[q].hash
        /\ inserts[p].ret
        /\ inserts[q].refused

\* the summary a lookup of hash h in rows returns (the first matching row)
Lookup(rows, h) == SelectByHash(rows, h)[1].summary_gpt3

\* C12: a stored ledger record stays: after every step of the program
\* (summarization runs, insert_summary, link insertion, update and deletion) a
\* lookup of each stored hash in its table returns the summary it returned
\* before the step.
C12_LedgerWriteOnce ==
    [][\A t \in DOMAIN tables :
          \A i \in 1..Len(tables[t]) :
              LET h == tables[t][i].hash_gpt3
              IN  /\ SelectByHash(tables'[t], h) # <<>>
                  /\ Lookup(tables'[t], h) = Lookup(tables[t], h)]_vars

\* links were deleted while the ledger held a record
C12_Witness ==
    /\ last.op \in {"delete_link", "remove_all_links"}
    /\ last.existed
    /\ ~last.failed
    /\ \E t \in DOMAIN tables : last.before[t] # <<>> /\ tables[t] = last.before[t]

\* a direct call of a section method has ended after a miss on which the
\* wrapped function computed a non-empty summary; no storage error was met
\* and no recursive call found a record
MissComputed ==
    /\ last.op = "call"
    /\ ~last.frame.hit
    /\ last.frame.func_called
    /\ Truthy(last.frame.result)
    /\ ~last.failed
    /\ ~last.existed

\* C13: on a miss the section method returns the summary it computed, and by
\* then the ledger holds a record under the request's hash with that summary.
C13_StoredBeforeReturn ==
    MissComputed =>
        /\ last.outcome = "returned"
        /\ last.val = last.frame.result
        /\ \E i \in 1..Len(tables[last.table]) :
              /\ tables[last.table][i].hash_gpt3 = last.hash
              /\ tables[last.table][i].summary_gpt3 = last.val

\* C17: after a section method completes on a miss with a non-empty LLM
\* answer, its table holds exactly one record under the request's hash, and
\* when every fragment fitted the budget no recursive call was made.
C17_OneRecordPerFingerprint ==
    (MissComputed /\ Truthy(last.frame.summary_text)) =>
        /\ Len(SelectByHash(tables[last.table], last.hash)) = 1
        /\ last.frame.remaining_sections = <<>> => last.frame.rec = <<>>

\* C14: a failed LLM client call makes generate_response return "", inside the
\* one attempt its request gets: the call's frame holds the empty summary, has
\* issued exactly one request and is not left by an exception.
C14_FailedCallReturnsEmpty ==
    \A i \in 1..Len(stack) :
        /\ stack[i].func_called => stack[i].nreq = 1
        /\ stack[i].llm_failed =>
              /\ stack[i].summary_text = EmptyStr
              /\ stack[i].pc # "exc"
              /\ Len(requests) >= 1

C14_Witness ==
    /\ stack # <<>>
    /\ Top.llm_failed
    /\ Top.pc = "ret"
    /\ Top.result = EmptyStr

\* the non-NULL cleaned_text values of the links table, in row order
StoredTexts ==
    LET kept == SelectSeq(links, LAMBDA r : r.cleaned_text # <<>>)
    IN  [i \in 1..Len(kept) |-> kept[i].cleaned_text[1]]

\* C15: the fragments a synthesize_content run builds for a section, after the
\* instruction, are the non-NULL cleaned_text values of the links table, each
\* verbatim and none left out.
C15_TextsVerbatim ==
    (synth.pc = "wait" /\ stack # <<>>) =>
        LET messages == BuildMessages(stack[1].section, stack[1].args)
        IN  [i \in 1..(Len(messages) - 1) |-> messages[i + 1].content] = StoredTexts

\* C16: a lookup never returns a summary produced from different content: the
\* prompt a PromptProcessor section returns from the ledger is one its
\* function builds from the request's own texts and sources.
C16_KeyCoversContent ==
    (last.op = "prompt" /\ last.frame.hit /\ last.val.kind = last.table) =>
        \E outcome \in ExtractionOutcomes :
            last.val = generate_prompt_with_entities(
                           last.table, last.frame.args, last.sources,
                           extract_entities(last.frame.args, outcome))

\* C18: for non-empty texts and sources _generate_prompt_with_entities returns
\* a non-empty prompt, whatever entity extraction does (entities found, none
\* found, the spaCy model failing, language detection raising).
C18_PromptWithoutEntities ==
    (/\ last.op = "prompt"
     /\ last.frame.func_called
     /\ last.frame.args # <<>>
     /\ last.sources # <<>>) => Truthy(last.frame.result)

\* C19: a request whose primary LLM call failed makes no recursive call on its
\* overflow: its frame is the innermost one and has received no recursive
\* result.
C19_FailedCallEndsRequest ==
    \A i \in 1..Len(stack) :
        stack[i].llm_failed =>
            /\ i = Len(stack)
            /\ stack[i].rec = <<>>

\* C20: a storage error met by a memoize wrapper's lookup counts as a miss:
\* the wrapped function is still called and the summary it computes is what
\* the caller gets.
C20_LookupErrorIsMiss ==
    /\ \A i \in 1..Len(stack) : stack[i].lookup_failed => stack[i].pc # "exc"
    /\ (last.op \in {"call", "prompt"} /\ last.frame.lookup_failed) =>
          /\ last.frame.func_called
          /\ last.outcome = "returned"
          /\ last.val = last.frame.result

\* C21: a failed store of a non-empty computed summary does not change what the
\* wrapper gives its caller: no call that has computed a non-empty result is
\* left by an exception, and a PromptProcessor section that has computed a
\* non-empty prompt returns that prompt.
C21_FailedStoreStillReturns ==
    /\ \A i \in 1..Len(stack) :
          (stack[i].func_called /\ Truthy(stack[i].result)) => stack[i].pc # "exc"
    /\ (last.op = "prompt" /\ last.frame.func_called /\ Truthy(last.frame.result)) =>
          last.val = last.frame.result

\* ---------------------------------- concurrent calls of a section method
\* texts of the concurrent callers
WrapTexts == {<<>>, << <<"a">> >>}
WrapHash == Sha256(StrOfArgs(<< <<"a">> >>))

\* a caller enters wrapped while other callers may be inside it; the callers
\* here bring texts that fit the budget beside the instruction
BeginCall(p, section_name, texts) ==
    /\ stack = <<>>
    /\ inserts[p].pc = "idle"
    /\ split_message_into_sections(BuildMessages(section_name, texts),
                                   context_gpt3)[2] = <<>>
    /\ inserts' = [inserts EXCEPT ![p] = Frame(section_name, texts)]
    /\ UNCHANGED <<context_gpt3, links, tables, stack, requests, synth, last, split>>

\* the caller's wrapped, up to the cache check (no lock is taken before it)
CallerLookup(p) ==
    /\ inserts[p].pc = "wrapped"
    /\ \E err \in BOOLEAN :
          LET opened == [inserts[p] EXCEPT !.conn = TRUE]
              row == SelectByHash(tables[opened.section], arg_hash(opened))
          IN  IF err \/ opened.section \notin DOMAIN tables
              THEN inserts' = [inserts EXCEPT ![p] =
                                  [opened EXCEPT !.pc = "exc", !.lookup_failed = TRUE]]
              ELSE IF row # <<>>
              THEN inserts' = [inserts EXCEPT ![p] = HitReturn(opened, row[1])]
              ELSE inserts' = [inserts EXCEPT ![p] = [opened EXCEPT !.pc = "func"]]
    /\ UNCHANGED <<context_gpt3, links, tables, stack, requests, synth, last, split>>

\* the caller's _generate_summary: build, split, generate_response
CallerGenerate(p) ==
    /\ inserts[p].pc = "func"
    /\ \E ok \in BOOLEAN :
          LET messages == BuildMessages(inserts[p].section, inserts[p].args)
              out == split_message_into_sections(messages, context_gpt3)
              summary_text == generate_response(out[1], ok)
          IN  /\ requests' = Append(requests, out[1])
              /\ inserts' = [inserts EXCEPT ![p] =
                                [@ EXCEPT !.pc = "store", !.func_called = TRUE,
                                          !.nreq = @ + 1, !.sections = out[1],
                                          !.summary_text = summary_text,
                                          !.result = summary_text, !.llm_failed = ~ok]]
    /\ UNCHANGED <<context_gpt3, links, tables, stack, synth, last, split>>

\* the caller's wrapped, after func: if result: INSERT, commit; close; return
CallerStore(p) ==
    /\ inserts[p].pc = "store"
    /\ LET call == inserts[p]
           row == WrapperRow(arg_hash(call), call.result)
       IN  IF Truthy(call.result)
           THEN \E err \in BOOLEAN :
                  IF err \/ InsertError(tables[call.section], row) # "none"
                  THEN /\ inserts' = [inserts EXCEPT ![p] = [call EXCEPT !.pc = "exc"]]
                       /\ UNCHANGED tables
                  ELSE /\ inserts' = [inserts EXCEPT ![p] =
                                         [call EXCEPT !.pc = "ret", !.conn = FALSE]]
                       /\ tables' = [tables EXCEPT ![call.section] = Append(@, row)]
           ELSE /\ inserts' = [inserts EXCEPT ![p] =
                                  [call EXCEPT !.pc = "ret", !.conn = FALSE]]
                /\ UNCHANGED tables
    /\ UNCHANGED <<context_gpt3, links, stack, requests, synth, last, split>>

\* insert_summary run to its end before any caller has entered wrapped
InsertBeforeCalls(prompt, summary) ==
    /\ \A p \in Callers : inserts[p].pc = "idle"
    /\ InsertSummary(PromptNames[1], prompt, summary, WrapHash)

NextWrap ==
    \/ \E p \in Callers, s \in PromptSections, texts \in WrapTexts : BeginCall(p, s, texts)
    \/ \E p \in Callers : CallerLookup(p)
    \/ \E p \in Callers : CallerGenerate(p)
    \/ \E p \in Callers : CallerStore(p)
    \/ \E pr \in PromptPool, s \in SummaryPool : InsertBeforeCalls(pr, s)

SpecWrap == Init /\ [][NextWrap]_vars

\* C22: two callers inside the same section method with the same texts never
\* both issue the LLM call: calls of one fingerprint are serialized, so that
\* the second one finds the record of the first.
C22_OneCallPerFingerprint ==
    \A p, q \in Callers :
        (/\ p # q
         /\ inserts[p].pc \in {"func", "store"}
         /\ inserts[q].pc \in {"func", "store"}
         /\ inserts[p].section = inserts[q].section
         /\ arg_hash(inserts[p]) = arg_hash(inserts[q])) =>
            ~(inserts[p].func_called /\ inserts[q].func_called)

\* C23: the fragments _generate_summary builds are the instruction followed by
\* one fragment per text in input order (what its split returned is the split
\* of that sequence), and when the instruction's word count is within the
\* budget every request of the running operation, recursive ones included,
\* starts with the instruction.
C23_InstructionFirst ==
    /\ \A i \in 1..Len(stack) :
          stack[i].func_called =>
              LET f == stack[i]
                  m == [j \in 1..(Len(f.args) + 1) |->
                           IF j = 1 THEN Message(Instruction(f.section))
                           ELSE Message(Strip(f.args[j - 1]))]
              IN  <<f.sections, f.remaining_sections>> =
                      split_message_into_sections(m, context_gpt3)
    /\ (stack # <<>> /\ WordCount(Instruction(stack[1].section)) <= context_gpt3) =>
          \A r \in 1..Len(requests) :
              /\ requests[r] # <<>>
              /\ requests[r][1].content = Instruction(stack[1].section)

\* a recursive call on an overflow fragment has sent its own request
C23_Witness ==
    /\ Len(stack) = 2
    /\ Top.func_called
    /\ Len(requests) = 2
    /\ Len(stack[1].args) = 2

\* C24: a call of split_message_into_sections leaves its input list, the
\* fragments in it and the state of the SummarizerManager and of the database
\* as they were, and on an empty input it returns two empty lists.
C24_SplitIsPure ==
    [][(~split.applied /\ split'.applied) =>
          /\ split'.messages = split.messages
          /\ <<context_gpt3, links, tables, stack, requests, synth, last, inserts>>' =
                <<context_gpt3, links, tables, stack, requests, synth, last, inserts>>
          /\ split.messages = <<>> =>
                (split'.primary = <<>> /\ split'.overflow = <<>>)]_vars

\* the call on an empty input has returned
C24_Witness ==
    /\ split.applied
    /\ split.messages = <<>>
    /\ split.primary = <<>>
    /\ split.overflow = <<>>

\* C25: the cleaned_text of a stored link row is never changed: after every
\* step each link still in the links table has the cleaned_text it had before.
C25_CleanedTextImmutable ==
    [][\A i \in 1..Len(links) : \A j \in 1..Len(links') :
          links'[j].link = links[i].link =>
              links'[j].cleaned_text = links[i].cleaned_text]_vars

\* C26: on a database holding the tables create_summary_tables made, no lookup
\* or store of a section method fails unless the storage itself fails: a call
\* is left by an exception only when a storage error was met.
C26_TablesCoverSections ==
    \A i \in 1..Len(stack) : stack[i].pc = "exc" => last.failed

\* C27: no ledger record holds an empty summary: a section method whose LLM
\* call failed returns with no record under its hash, so the next call with
\* the same texts misses again, and a PromptProcessor section whose function
\* gave an empty prompt leaves the ledger as it was.
C27_NoEmptySummaryStored ==
    /\ \A t \in DOMAIN tables : \A i \in 1..Len(tables[t]) :
          /\ tables[t][i].summary_gpt3 # EmptyStr
          /\ tables[t][i].summary_gpt3 # NoneVal
    /\ (last.op = "call" /\ last.outcome = "returned" /\ last.frame.llm_failed) =>
          /\ last.val = EmptyStr
          /\ SelectByHash(tables[last.table], last.hash) = <<>>
    /\ (last.op = "prompt" /\ last.frame.func_called /\ last.frame.result = EmptyStr) =>
          tables = last.before

\* a section method has returned after its LLM call failed
C27_Witness ==
    /\ last.op = "call"
    /\ last.outcome = "returned"
    /\ last.frame.llm_failed
    /\ last.frame.args # <<>>

\* ------------------------------- section calls beside a filled links table
FrameSections == {"relato", "contexto"}
\* one text that fits beside either instruction, and two three-word texts of
\* which the second overflows for either section
FrameTexts ==
    {<< <<"a">> >>,
     << <<"a", " ", "a", " ", "a">>, <<"a", " ", "a", " ", "a">> >>}
FrameHash == Sha256(StrOfArgs(<< <<"a">> >>))

NextFrame ==
    \/ \E l \in LedgerLinks, t \in LedgerTexts : InsertLink(l, t)
    \/ \E s \in FrameSections, texts \in FrameTexts : CallSection(s, texts)
    \/ WrappedLookup
    \/ GenerateSummary
    \/ ProcessRemaining
    \/ Store
    \/ Return
    \/ ReturnToCaller
    \/ \E t \in FrameSections, p \in PromptPool, s \in SummaryPool :
          InsertSummary(t, p, s, FrameHash)
    \/ \E s \in FrameSections, src \in SourcePool :
          PromptCall(s, << <<"a">> >>, src)

SpecFrame == Init /\ [][NextFrame]_vars

\* C28: while a section method and its overflow recursion run, every call on
\* the stack is one of the same section, and each step leaves the links table
\* and the records of every other section's table as they were; a
\* PromptProcessor section changes no table but its own.
C28_OnlyOwnTable ==
    [][/\ stack # <<>> =>
             /\ \A i \in 1..Len(stack) : stack[i].section = stack[1].section
             /\ links' = links
             /\ \A t \in DOMAIN tables :
                   t # stack[1].section => tables'[t] = tables[t]
       /\ (stack = <<>> /\ stack' = <<>> /\ last'.op = "prompt") =>
             /\ links' = links
             /\ \A t \in DOMAIN tables :
                   t # last'.table => tables'[t] = tables[t]]_vars

\* a recursive call on overflow has looked up its own table, with a link row
\* and a record of another section present
C28_Witness ==
    /\ Len(stack) = 2
    /\ Top.pc \in {"func", "ret"}
    /\ links # <<>>
    /\ \E t \in DOMAIN tables : t # stack[1].section /\ tables[t] # <<>>

\* ------------------------------------------------------------ TexGenerator
\* records kept in all ledger tables together while documents are rendered
MaxTexRecords == 2

\* sections = ["relato", "contexto", "entidades", "linha_tempo", ...]
RenderedSections ==
    <<"relato", "contexto", "entidades", "linha_tempo", "contradicoes", "conclusao">>

\* summaries found in the ledger by a rendering: of the request's texts, of
\* an overflow fragment, of other link contents, and an empty one
TexTables == {"relato", "contexto"}
TexSummaries ==
    {[kind |-> "llm", of |-> << <<"a">> >>], [kind |-> "llm", of |-> << <<"b">> >>],
     EmptyStr}
TexHashes ==
    {Sha256(StrOfArgs(<< <<"a">> >>)), Sha256(StrOfArgs(<< <<"b">> >>))}

\* variant: only the latest record of the table is taken
SectionSummariesLatest(rows) ==
    IF rows = <<>> THEN <<>> ELSE <<rows[Len(rows)].summary_gpt3>>

\* SELECT summary_gpt3 FROM section; [row[0] for row in rows if ... row[0]]
SectionSummaries(rows) ==
    LET kept == SelectSeq(rows, LAMBDA r : Truthy(r.summary_gpt3))
    IN  [i \in 1..Len(kept) |-> kept[i].summary_gpt3]

\* fetch_summaries_and_sources: the summaries of each section in turn; a
\* missing database file gives the empty dict, and an sqlite3.Error at section
\* number failing leaves the dict with the sections before it
FetchSummariesAndSources ==
    /\ Idle
    /\ \E failing \in 0..Len(RenderedSections) :
          LET done == IF failing = 0 THEN Len(RenderedSections) ELSE failing - 1
              summaries == [s \in {RenderedSections[i] : i \in 1..done} |->
                               SectionSummaries(tables[s])]
          IN  last' = [NoOp EXCEPT !.op = "fetch_summaries", !.failed = failing # 0,
                                   !.before = tables, !.outcome = "returned",
                                   !.val = summaries]
    /\ requests' = <<>>
    /\ UNCHANGED <<context_gpt3, links, tables, stack, synth, split, inserts>>

NextTex ==
    \/ \E t \in TexTables, p \in PromptPool, s \in TexSummaries, h \in TexHashes :
          InsertSummaryUpTo(MaxTexRecords, t, p, s, h)
    \/ FetchSummariesAndSources

SpecTex == Init /\ [][NextTex]_vars

\* C29: a fetch that met no storage error returns, for each of the six
\* rendered sections, the non-empty summaries of all records of the section's
\* table in row order, whatever hash each record is stored under.
C29_AllRecordsRendered ==
    (last.op = "fetch_summaries" /\ ~last.failed) =>
        \A k \in 1..Len(RenderedSections) :
            LET section == RenderedSections[k]
                rows == tables[section]
                got == last.val[section]
            IN  /\ section \in DOMAIN last.val
                /\ \A i \in 1..Len(rows) :
                      rows[i].summary_gpt3 # EmptyStr =>
                          \E j \in 1..Len(got) : got[j] = rows[i].summary_gpt3
                /\ got = Restrict([i \in 1..Len(rows) |-> rows[i].summary_gpt3],
                                   {i \in 1..Len(rows) : rows[i].summary_gpt3 # EmptyStr}, 1)

\* two records under different hashes in one table were both returned
C29_Witness ==
    /\ last.op = "fetch_summaries"
    /\ ~last.failed
    /\ \E t \in TexTables :
          /\ Len(tables[t]) = 2
          /\ tables[t][1].hash_gpt3 # tables[t][2].hash_gpt3
          /\ Len(last.val[t]) = 2

\* C30: a call that has ended, by a return or by an exception, has closed the
\* connection it opened: no ended call on the stack and no completed call
\* holds an open connection.
C30_ConnectionsClosed ==
    /\ \A i \in 1..Len(stack) :
          stack[i].pc \in {"ret", "exc"} => ~stack[i].conn
    /\ last.op \in {"call", "prompt"} => ~last.frame.conn

====
